---- MODULE Spec2Model ----
(***************************************************************************)
(* codebuild-run-build: the command (main) parses the environment          *)
(* overrides, Runner.Run submits the build, resolves the log location,     *)
(* starts the log watcher and the build poller as goroutines and merges    *)
(* their unbuffered channels in a select loop; main turns the value Run    *)
(* returns into the process exit code.                                     *)
(*                                                                         *)
(* A string is a sequence of one-character strings.  A goroutine blocked   *)
(* on a send to an unbuffered channel is a program counter value           *)
(* ("sendErr", "sendBuild", "sendEvent"); the receive of the select loop   *)
(* and the send it completes are one step.                                 *)
(***************************************************************************)
EXTENDS Integers, Sequences, FiniteSets, TLC

VARIABLES
    command,      \* the command built: with --env only ("env", main.go), or
                  \* with --env and --env-file ("env-file")
    envFile,      \* lines of the --env-file file ("env-file" only)
    envFlags,     \* values of the repeated --env flag
    mPc,          \* position of main: "action", "run", "exited"
    rEnv,         \* Runner.Env as main filled it
    exitCode,     \* exit code of the process, read once mPc = "exited"
    oPc,          \* position of Runner.Run
    request,      \* EnvironmentVariablesOverride of the StartBuildInput sent
    startCalls,   \* number of StartBuild calls
    ctx,          \* "none" (not created), "live", "cancelled"
    result,       \* value returned by Run
    rFetches,     \* BatchGetBuilds calls of waitForLogs
    logs,         \* LogsLocation waitForLogs returned
    pPc,          \* position of the goroutine running waitForBuildComplete
    pFetches,     \* BatchGetBuilds calls of waitForBuildComplete
    pMsg,         \* what the poller goroutine sends (an error or a build)
    pLast,        \* the build its last BatchGetBuilds returned (history)
    wPc,          \* position of the goroutine running lw.Watch
    wFetches,     \* log-service calls of the watcher
    wBatch,       \* events of the current page not yet given to Printer
    wMsg,         \* error the watcher goroutine sends
    emitted,      \* number of log events the log service has returned
    handed,       \* events received from logEvents, in order (history)
    printed,      \* events written to standard output, in order
    got,          \* what the select loop received last (history)
    lateCalls,    \* service calls issued after Run returned (history)
    seen          \* what the tasks have met so far (history, see Tags)

vars == <<command, envFile, envFlags, mPc, rEnv, exitCode, oPc, request,
          startCalls, ctx, result, rFetches, logs, pPc, pFetches, pMsg,
          pLast, wPc, wFetches, wBatch, wMsg, emitted, handed, printed, got,
          lateCalls, seen>>

envVars == <<command, envFile, envFlags, mPc, rEnv, exitCode>>
runVars == <<oPc, request, startCalls, ctx, result, rFetches, logs, got>>
pollerVars == <<pPc, pFetches, pMsg, pLast>>
watcherVars == <<wPc, wFetches, wBatch, wMsg, emitted>>
outVars == <<handed, printed>>

(***************************************************************************)
(* Bounds of the model.                                                    *)
(***************************************************************************)
MaxFileEnv == 1     \* lines in the env file
MaxFlagEnv == 2     \* occurrences of --env
MaxPolls == 2       \* service calls of each polling loop
MaxEvents == 2      \* log events the log service returns in all

None == [kind |-> "none"]

(***************************************************************************)
(* Strings                                                                 *)
(***************************************************************************)
\* index of the first "=" of s, 0 when there is none
IndexEq(s) ==
    IF \E i \in 1..Len(s) : s[i] = "="
    THEN CHOOSE i \in 1..Len(s) :
            /\ s[i] = "="
            /\ \A j \in 1..(i - 1) : s[j] # "="
    ELSE 0

\* strings.SplitN(s, "=", 2)
SplitN2(s) ==
    LET i == IndexEq(s)
    IN  IF i = 0 THEN <<s>>
        ELSE <<SubSeq(s, 1, i - 1), SubSeq(s, i + 1, Len(s))>>

\* json.Unmarshal(b, &string) over the alphabet of EnvEntries (letters, "=",
\* the double quote; no backslash, no white space): b must be one JSON
\* string literal, and the result is the text between its quotes.
JSONUnmarshalString(b) ==
    IF /\ Len(b) >= 2
       /\ b[1] = "\""
       /\ b[Len(b)] = "\""
       /\ \A i \in 2..(Len(b) - 1) : b[i] # "\""
    THEN [ok |-> TRUE, val |-> SubSeq(b, 2, Len(b) - 1)]
    ELSE [ok |-> FALSE, val |-> <<>>]

\* parseEnv of the command with --env-file
parseEnv(s) ==
    LET parts == SplitN2(s)
    IN  IF Len(parts) # 2 THEN [ok |-> FALSE, Name |-> <<>>, Value |-> <<>>]
        ELSE LET m == JSONUnmarshalString(parts[2])
             IN  IF ~m.ok THEN [ok |-> FALSE, Name |-> <<>>, Value |-> <<>>]
                 ELSE [ok |-> TRUE, Name |-> parts[1], Value |-> m.val]

\* readEnvFile, and the loop of main over the --env flags: parseEnv of each
\* entry, in order
ParseAll(entries) == [i \in 1..Len(entries) |-> parseEnv(entries[i])]

AllOk(parsed) == \A i \in 1..Len(parsed) : parsed[i].ok

AsEnv(parsed) ==
    [i \in 1..Len(parsed) |-> [Name |-> parsed[i].Name, Value |-> parsed[i].Value]]

\* the loop of Runner.Run over r.Env ([]string): an entry without "=" is
\* logged and skipped
RECURSIVE EnvironmentVariablesOverride(_)
EnvironmentVariablesOverride(env) ==
    IF env = <<>> THEN <<>>
    ELSE LET parts == SplitN2(Head(env))
             rest == EnvironmentVariablesOverride(Tail(env))
         IN  IF Len(parts) # 2 THEN rest
             ELSE <<[Name |-> parts[1], Value |-> parts[2]]>> \o rest

\* The Runner the command with --env-file is built against takes r.Env as
\* name/value pairs; its request keeps, for each name, the last pair.
RECURSIVE TypedOverrides(_)
TypedOverrides(env) ==
    IF env = <<>> THEN <<>>
    ELSE LET rest == TypedOverrides(Tail(env))
         IN  IF \E i \in 1..Len(rest) : rest[i].Name = Head(env).Name
             THEN rest
             ELSE <<Head(env)>> \o rest

(***************************************************************************)
(* Inputs                                                                  *)
(***************************************************************************)
EnvEntries ==
    { <<"K", "=", "v">>,                 \* K=v
      <<"K", "=", "\"", "v", "\"">>,     \* K="v"
      <<"K", "=", "\"", "w", "\"">>,     \* K="w"
      <<"K", "=", "v", "=", "w">>,       \* K=v=w
      <<"J", "=", "\"", "v", "\"">>,     \* J="v"
      <<"K">> }                          \* K

SeqsUpTo(S, n) == UNION { [1..k -> S] : k \in 0..n }

Statuses ==
    {"SUCCEEDED", "FAILED", "FAULT", "STOPPED", "TIMED_OUT", "IN_PROGRESS",
     "OTHER"}

Nil == [kind |-> "nil"]
Err(m) == [kind |-> "error", msg |-> m]

InitRun ==
    /\ mPc = "action"
    /\ rEnv = <<>>
    /\ exitCode = 0
    /\ oPc = "idle"
    /\ request = <<>>
    /\ startCalls = 0
    /\ ctx = "none"
    /\ result = None
    /\ rFetches = 0
    /\ logs = None
    /\ pPc = "idle"
    /\ pFetches = 0
    /\ pMsg = None
    /\ pLast = None
    /\ wPc = "idle"
    /\ wFetches = 0
    /\ wBatch = <<>>
    /\ wMsg = None
    /\ emitted = 0
    /\ handed = <<>>
    /\ printed = <<>>
    /\ got = None
    /\ lateCalls = 0
    /\ seen = {}

\* the command line: any env file and env flags within the bounds; the
\* command of main.go has no --env-file
InitEnv ==
    /\ command \in {"env", "env-file"}
    /\ envFile \in SeqsUpTo(EnvEntries, MaxFileEnv)
    /\ envFlags \in SeqsUpTo(EnvEntries, MaxFlagEnv)
    /\ command = "env" => envFile = <<>>
    /\ InitRun

\* the command line without environment overrides
Init ==
    /\ command \in {"env", "env-file"}
    /\ envFile = <<>>
    /\ envFlags = <<>>
    /\ InitRun

(***************************************************************************)
(* main, up to the call of r.Run                                           *)
(***************************************************************************)
MainAction ==
    /\ mPc = "action"
    /\ IF command = "env"
       THEN /\ rEnv' = envFlags
            /\ mPc' = "run"
            /\ oPc' = "Starting"
            /\ UNCHANGED exitCode
       ELSE LET file == ParseAll(envFile)
                flags == ParseAll(envFlags)
            IN  IF ~AllOk(file)
                THEN /\ mPc' = "exited"
                     /\ exitCode' = 2
                     /\ UNCHANGED <<rEnv, oPc>>
                ELSE IF ~AllOk(flags)
                THEN /\ mPc' = "exited"
                     /\ exitCode' = 1
                     /\ UNCHANGED <<rEnv, oPc>>
                ELSE /\ rEnv' = AsEnv(file) \o AsEnv(flags)
                     /\ mPc' = "run"
                     /\ oPc' = "Starting"
                     /\ UNCHANGED exitCode
    /\ UNCHANGED <<command, envFile, envFlags, request, startCalls, ctx,
                   result, rFetches, logs, got, lateCalls, seen>>
    /\ UNCHANGED <<pollerVars, watcherVars, outVars>>

(***************************************************************************)
(* Runner.Run: the request and StartBuild                                  *)
(***************************************************************************)
Overrides ==
    IF command = "env" THEN EnvironmentVariablesOverride(rEnv)
    ELSE TypedOverrides(rEnv)

\* StartBuildNext with a fault: a failed StartBuild is tried again
StartBuildNextRetry(ok) == IF ok THEN "WaitingForSink" ELSE "Starting"

\* StartBuildNext with a fault: the error of StartBuild is not looked at
StartBuildNextUnchecked(ok) == "WaitingForSink"

\* where Run goes after StartBuild: on to waitForLogs, or, on an error, out
\* (if err != nil { return err })
StartBuildNext(ok) == IF ok THEN "WaitingForSink" ELSE "Done"

\* Run up to the return of StartBuild, which succeeds or fails as oks allows
RunStartBuildOf(oks) ==
    /\ mPc = "run"
    /\ oPc = "Starting"
    /\ request' = Overrides
    /\ startCalls' = startCalls + 1
    /\ \E ok \in oks :
          /\ oPc' = StartBuildNext(ok)
          /\ IF ok
             THEN /\ ctx' = "live"
                  /\ UNCHANGED result
             ELSE /\ result' = Err("SubmissionError")
                  /\ UNCHANGED ctx
    /\ UNCHANGED <<envVars, rFetches, logs, got, lateCalls, seen>>
    /\ UNCHANGED <<pollerVars, watcherVars, outVars>>

RunStartBuild == RunStartBuildOf(BOOLEAN)

NextEnv == MainAction \/ RunStartBuild

SpecEnv == InitEnv /\ [][NextEnv]_vars

(***************************************************************************)
(* Runner.Run: waitForLogs                                                 *)
(***************************************************************************)
\* what one BatchGetBuilds of waitForLogs can answer: a service error, no
\* build, a build without Logs, a build whose Logs has no group or stream
\* name yet, a build whose Logs names both
LogsAnswers == {"err", "zero", "nologs", "partial", "full"}

\* defer cancel() with a fault: the deferred call is missing
DeferredCancelMissing(c) == c

\* defer cancel(): what a return of Run (or a panic in it) makes of the ctx c
DeferredCancel(c) == "cancelled"

\* One turn of the loop of waitForLogs (the scope is live until Run returns,
\* so only the timer case of its select can be taken), BatchGetBuilds
\* answering as answers allows, and, when it returns an error, the return of
\* Run with its deferred cancel.
ResolverPollOf(answers) ==
    /\ mPc = "run"
    /\ oPc = "WaitingForSink"
    /\ logs = None
    /\ rFetches < MaxPolls
    /\ rFetches' = rFetches + 1
    /\ \E a \in answers :
          CASE a = "err" ->
                 /\ result' = Err("BuildSvcError")
                 /\ oPc' = "Done"
                 /\ ctx' = DeferredCancel(ctx)
                 /\ UNCHANGED <<logs, seen>>
            [] a = "zero" ->
                 /\ result' = Err("No builds found")
                 /\ oPc' = "Done"
                 /\ ctx' = DeferredCancel(ctx)
                 /\ seen' = seen \cup {"resolver-zero"}
                 /\ UNCHANGED logs
            [] a = "nologs" ->
                 UNCHANGED <<result, oPc, ctx, logs, seen>>
            [] OTHER ->
                 /\ logs' = [kind |-> "logs", full |-> (a = "full")]
                 /\ UNCHANGED <<result, oPc, ctx, seen>>
    /\ UNCHANGED <<envVars, request, startCalls, got, lateCalls>>
    /\ UNCHANGED <<pollerVars, watcherVars, outVars>>

ResolverPoll == ResolverPollOf(LogsAnswers)

\* Run after waitForLogs returned a location: the channels, the logWatcher
\* (which reads *logs.GroupName and *logs.StreamName: a nil pointer there
\* panics, the deferred cancel runs and the process dies with the runtime's
\* exit code 2) and the two goroutines.
RunStartTasks ==
    /\ mPc = "run"
    /\ oPc = "WaitingForSink"
    /\ logs # None
    /\ IF logs.full
       THEN /\ oPc' = "Streaming"
            /\ pPc' = "select"
            /\ wPc' = "select"
            /\ UNCHANGED <<result, ctx, mPc, exitCode>>
       ELSE /\ oPc' = "Done"
            /\ result' = [kind |-> "panic"]
            /\ ctx' = DeferredCancel(ctx)
            /\ mPc' = "exited"
            /\ exitCode' = 2
            /\ UNCHANGED <<pPc, wPc>>
    /\ UNCHANGED <<command, envFile, envFlags, rEnv, request, startCalls,
                   rFetches, logs, got, lateCalls, seen>>
    /\ UNCHANGED <<pFetches, pMsg, pLast, wFetches, wBatch, wMsg, emitted,
                   outVars>>

\* a service call issued once Run has returned
Late == IF oPc = "Done" THEN 1 ELSE 0

\* Tags of seen: "resolver-zero" and "poller-zero", a fetch of that loop
\* returned no build; "poller-fatal" and "watcher-fatal", that task returned
\* an error other than the cancellation error while Run was in its select
\* loop.
Fatal(tag) == IF oPc = "Streaming" THEN {tag} ELSE {}

\* the cases of the select of Run that are ready: a goroutine is blocked in
\* the matching send
Ready ==
    (IF wPc = "sendEvent" THEN {"log"} ELSE {})
    \cup (IF wPc = "sendErr" \/ pPc = "sendErr" THEN {"err"} ELSE {})
    \cup (IF pPc = "sendBuild" THEN {"build"} ELSE {})

(***************************************************************************)
(* The goroutine of waitForBuildComplete                                   *)
(***************************************************************************)
\* select: the case of time.After
PollerTimer ==
    /\ mPc = "run"
    /\ pPc = "select"
    /\ pFetches < MaxPolls
    /\ pPc' = "fetch"
    /\ UNCHANGED <<envVars, runVars, pFetches, pMsg, pLast, watcherVars,
                   outVars, lateCalls, seen>>

\* select: the case of ctx.Done(), then errs <- err
PollerCtxDone ==
    /\ mPc = "run"
    /\ pPc = "select"
    /\ ctx = "cancelled"
    /\ pMsg' = Err("Context done")
    /\ pPc' = "sendErr"
    /\ UNCHANGED <<envVars, runVars, pFetches, pLast, watcherVars, outVars,
                   lateCalls, seen>>

BuildAnswers == {"err", "zero", "running", "complete"}

\* PollerReturn with a fault: an answer without builds is taken for a build
\* that is not complete yet, and polled again
PollerReturnRetryZero(a, status) ==
    CASE a = "err" -> Err("BuildSvcError")
      [] a = "complete" -> [kind |-> "build", BuildStatus |-> status]
      [] OTHER -> None

\* PollerReturn with a fault: BuildComplete is not looked at
PollerReturnAnyBuild(a, status) ==
    CASE a = "err" -> Err("BuildSvcError")
      [] a = "zero" -> Err("No builds found")
      [] OTHER -> [kind |-> "build", BuildStatus |-> status]

\* what waitForBuildComplete returns for the answer a of BatchGetBuilds, the
\* build having the given status; None when it goes round its loop again
PollerReturn(a, status) ==
    CASE a = "err" -> Err("BuildSvcError")
      [] a = "zero" -> Err("No builds found")
      [] a = "complete" -> [kind |-> "build", BuildStatus |-> status]
      [] OTHER -> None

\* Builds[0] of the answer a, None when the answer holds no build
Fetched(a, status) ==
    IF a \in {"running", "complete"}
    THEN [kind |-> "build", BuildComplete |-> (a = "complete"),
          BuildStatus |-> status]
    ELSE None

\* the body of the timer case: BatchGetBuildsWithContext, answering as
\* answers allows, and what follows; the goroutine of Run sends an error on
\* errs, a build on buildComplete
PollerFetchOf(answers) ==
    /\ mPc = "run"
    /\ pPc = "fetch"
    /\ pFetches' = pFetches + 1
    /\ lateCalls' = lateCalls + Late
    /\ \E a \in answers, s \in Statuses :
          LET r == PollerReturn(a, s)
          IN  /\ pLast' = Fetched(a, s)
              /\ IF r = None
                 THEN pPc' = "select" /\ UNCHANGED pMsg
                 ELSE /\ pMsg' = r
                      /\ pPc' = IF r.kind = "build" THEN "sendBuild"
                                ELSE "sendErr"
              /\ seen' = seen
                    \cup (IF a = "zero" THEN {"poller-zero"} ELSE {})
                    \cup (IF a \in {"err", "zero"} THEN Fatal("poller-fatal")
                          ELSE {})
    /\ UNCHANGED <<envVars, runVars, watcherVars, outVars>>

PollerFetch == PollerFetchOf(BuildAnswers)

(***************************************************************************)
(* The goroutine of lw.Watch                                               *)
(***************************************************************************)
\* the scope is cancelled: Watch returns its cancellation error, which the
\* goroutine of Run sends on errs like any other
WatcherCtxDone ==
    /\ mPc = "run"
    /\ wPc = "select"
    /\ ctx = "cancelled"
    /\ wMsg' = Err("Context done")
    /\ wPc' = "sendErr"
    /\ UNCHANGED <<envVars, runVars, pollerVars, wFetches, wBatch, emitted,
                   outVars, lateCalls, seen>>

\* One turn of the loop of Watch while the scope is live: the poll interval
\* passes and the log service is called once.  It answers that the stream
\* does not exist yet (retried), a fatal error, or a page of n new events,
\* which Watch gives to Printer one by one.  A cancelled scope is observed at
\* the suspension point instead, with no further call.  The log service
\* answers as answers allows.
WatcherPollOf(answers) ==
    /\ mPc = "run"
    /\ wPc = "select"
    /\ ctx = "live"
    /\ wFetches < MaxPolls
    /\ wFetches' = wFetches + 1
    /\ \E a \in answers, n \in 0..(MaxEvents - emitted) :
          CASE a = "notfound" ->
                 /\ wPc' = "select"
                 /\ UNCHANGED <<wBatch, wMsg, emitted, seen>>
            [] a = "err" ->
                 /\ wMsg' = Err("LogError")
                 /\ wPc' = "sendErr"
                 /\ seen' = seen \cup {"watcher-fatal"}
                 /\ UNCHANGED <<wBatch, emitted>>
            [] OTHER ->
                 /\ wBatch' = [i \in 1..n |-> emitted + i]
                 /\ emitted' = emitted + n
                 /\ wPc' = IF n = 0 THEN "select" ELSE "sendEvent"
                 /\ UNCHANGED <<wMsg, seen>>
    /\ UNCHANGED <<envVars, runVars, pollerVars, outVars, lateCalls>>

LogAnswers == {"notfound", "err", "page"}

WatcherPoll == WatcherPollOf(LogAnswers)

(***************************************************************************)
(* Runner.Run: the select loop                                             *)
(***************************************************************************)
\* PrintEvent with a fault: the event is written before the earlier output
PrintEventFirst(out, event) == <<event>> \o out

\* fmt.Print(*event.Message)
PrintEvent(out, event) == Append(out, event)

\* exitError{buildErr, code}: a value of the struct type, not a pointer
ExitError(status, code) ==
    [kind |-> "exitError", status |-> status, exitCode |-> code,
     pointer |-> FALSE]

\* StatusOutcome with a fault: the codes of FAULT and STOPPED exchanged
StatusOutcomeSwapped(status) ==
    CASE status = "FAILED" -> ExitError(status, 1)
      [] status = "FAULT" -> ExitError(status, 3)
      [] status = "STOPPED" -> ExitError(status, 2)
      [] status = "TIMED_OUT" -> ExitError(status, 4)
      [] OTHER -> Nil

\* the switch on *build.BuildStatus and the return nil after it
StatusOutcome(status) ==
    CASE status = "FAILED" -> ExitError(status, 1)
      [] status = "FAULT" -> ExitError(status, 2)
      [] status = "STOPPED" -> ExitError(status, 3)
      [] status = "TIMED_OUT" -> ExitError(status, 4)
      [] OTHER -> Nil

\* Selecting with a fault: the completion case leaves the select (a break)
\* but not the loop
SelectingAfterBreak == oPc \in {"Streaming", "Completing"}

\* the for loop of Run is at its select
Selecting == oPc = "Streaming"

\* case event := <-logEvents: the Printer callback of the watcher is blocked
\* in logEvents <- *event; the event is printed and the loop goes on
OrchRecvLog ==
    /\ mPc = "run"
    /\ Selecting
    /\ wPc = "sendEvent"
    /\ handed' = Append(handed, Head(wBatch))
    /\ printed' = PrintEvent(printed, Head(wBatch))
    /\ wBatch' = Tail(wBatch)
    /\ wPc' = IF Tail(wBatch) = <<>> THEN "select" ELSE "sendEvent"
    /\ got' = [kind |-> "event", from |-> "watcher", ready |-> Ready]
    /\ UNCHANGED <<envVars, oPc, request, startCalls, ctx, result, rFetches,
                   logs, pollerVars, wFetches, wMsg, emitted, lateCalls,
                   seen>>

\* ErrOutcome with a fault: the received error is wrapped in a new one
ErrOutcomeWrapped(err) == Err("Run failed")

\* what Run does with an error received from errs: cancel(); return err
ErrOutcome(err) == err

\* case err := <-errs, the sender being the goroutine t
OrchRecvErrFrom(t) ==
    /\ mPc = "run"
    /\ Selecting
    /\ IF t = "watcher" THEN wPc = "sendErr" ELSE pPc = "sendErr"
    /\ LET err == IF t = "watcher" THEN wMsg ELSE pMsg
       IN  /\ got' = [kind |-> "error", from |-> t, err |-> err,
                      ready |-> Ready]
           /\ result' = ErrOutcome(err)
    /\ IF t = "watcher"
       THEN wPc' = "exited" /\ UNCHANGED pPc
       ELSE pPc' = "exited" /\ UNCHANGED wPc
    /\ ctx' = "cancelled"
    /\ oPc' = "Done"
    /\ UNCHANGED <<envVars, request, startCalls, rFetches, logs, pFetches,
                   pMsg, pLast, wFetches, wBatch, wMsg, emitted, outVars,
                   lateCalls, seen>>

OrchRecvErr == \E t \in {"watcher", "poller"} : OrchRecvErrFrom(t)

\* case build := <-buildComplete: cancel()
OrchRecvComplete ==
    /\ mPc = "run"
    /\ Selecting
    /\ pPc = "sendBuild"
    /\ got' = [kind |-> "build", from |-> "poller",
               BuildStatus |-> pMsg.BuildStatus, ready |-> Ready]
    /\ pPc' = "exited"
    /\ ctx' = "cancelled"
    /\ oPc' = "Completing"
    /\ UNCHANGED <<envVars, request, startCalls, result, rFetches, logs,
                   pFetches, pMsg, pLast, watcherVars, outVars, lateCalls,
                   seen>>

\* the rest of that case: the outcome of the status, returned
OrchComplete ==
    /\ mPc = "run"
    /\ oPc = "Completing"
    /\ result' = StatusOutcome(got.BuildStatus)
    /\ oPc' = "Done"
    /\ UNCHANGED <<envVars, request, startCalls, ctx, rFetches, logs, got,
                   pollerVars, watcherVars, outVars, lateCalls, seen>>

(***************************************************************************)
(* main, after r.Run returned                                              *)
(***************************************************************************)
\* err.(cli.ExitCoder): ExitCode is declared on *exitError, so it is in the
\* method set of a pointer to an exitError only
IsExitCoder(err) == err.kind = "exitError" /\ err.pointer

\* the exit code of the process for the value Run returned: nil ends the
\* action normally, an ExitCoder is handed to the cli library, which exits
\* with its code, anything else is printed and exits with 1
ExitCodeOf(err) ==
    IF err = Nil THEN 0
    ELSE IF IsExitCoder(err) THEN err.exitCode
    ELSE 1

MainExit ==
    /\ mPc = "run"
    /\ oPc = "Done"
    /\ exitCode' = ExitCodeOf(result)
    /\ mPc' = "exited"
    /\ UNCHANGED <<command, envFile, envFlags, rEnv, runVars, pollerVars,
                   watcherVars, outVars, lateCalls, seen>>

Next ==
    \/ MainAction
    \/ RunStartBuild
    \/ ResolverPoll
    \/ RunStartTasks
    \/ PollerTimer
    \/ PollerCtxDone
    \/ PollerFetch
    \/ WatcherCtxDone
    \/ WatcherPoll
    \/ OrchRecvLog
    \/ OrchRecvErr
    \/ OrchRecvComplete
    \/ OrchComplete
    \/ MainExit

Spec == Init /\ [][Next]_vars

(***************************************************************************)
(* The run whose service calls all succeed: StartBuild succeeds, the build *)
(* shows its Logs at the last permitted fetch of waitForLogs at the latest *)
(* and is complete at the last permitted fetch of waitForBuildComplete at  *)
(* the latest, and the log service has at most MaxEvents events.  Each     *)
(* goroutine that can take a step eventually takes one.                    *)
(***************************************************************************)
LiveLogsAnswers ==
    IF rFetches + 1 >= MaxPolls THEN {"partial", "full"}
    ELSE {"nologs", "partial", "full"}

LiveBuildAnswers ==
    IF pFetches + 1 >= MaxPolls THEN {"complete"} ELSE {"running", "complete"}

LiveLogAnswers == {"notfound", "page"}

MainLive ==
    \/ MainAction
    \/ RunStartBuildOf({TRUE})
    \/ ResolverPollOf(LiveLogsAnswers)
    \/ RunStartTasks
    \/ OrchRecvLog
    \/ OrchRecvComplete
    \/ OrchComplete
    \/ MainExit

PollerLive == PollerTimer \/ PollerFetchOf(LiveBuildAnswers)

WatcherLive == WatcherCtxDone \/ WatcherPollOf(LiveLogAnswers)

NextLive == MainLive \/ PollerLive \/ WatcherLive

SpecLive ==
    /\ Init
    /\ [][NextLive]_vars
    /\ WF_vars(MainLive)
    /\ WF_vars(PollerLive)
    /\ WF_vars(WatcherLive)

(***************************************************************************)
(* Properties                                                              *)
(***************************************************************************)
MappedFailures == {"FAILED", "FAULT", "STOPPED", "TIMED_OUT"}

\* the exit code the status-to-exit table gives a status
TableCode(status) ==
    CASE status = "FAILED" -> 1
      [] status = "FAULT" -> 2
      [] status = "STOPPED" -> 3
      [] status = "TIMED_OUT" -> 4
      [] OTHER -> 0

\* Run has returned from the completion case, having received the build
\* the poller sent
ReturnedBuild == oPc = "Done" /\ got.kind = "build"

\* C1: when Run returns after the poller delivered a completed build, the
\* value it returns is the one the table gives the status of that build: no
\* error for SUCCEEDED and for every status outside the table, and a failure
\* with exit code 1, 2, 3, 4 for FAILED, FAULT, STOPPED, TIMED_OUT.
C1_StatusTable ==
    ReturnedBuild =>
        /\ got.BuildStatus = pMsg.BuildStatus
        /\ got.BuildStatus \in MappedFailures =>
              /\ result.kind = "exitError"
              /\ result.status = got.BuildStatus
              /\ result.exitCode = TableCode(got.BuildStatus)
        /\ got.BuildStatus \notin MappedFailures => result = Nil

C1_Witness ==
    /\ ReturnedBuild
    /\ got.BuildStatus = "STOPPED"
    /\ result.kind = "exitError"
    /\ result.exitCode = 3

\* C2: once the process has exited after Run returned from the completion
\* case, its exit code is the code of the table for the status of the build
\* (1, 2, 3, 4 for FAILED, FAULT, STOPPED, TIMED_OUT, and 0 otherwise).
C2_ExitCodeIsTableCode ==
    (mPc = "exited" /\ ReturnedBuild) => exitCode = TableCode(got.BuildStatus)

\* C3: the events the select loop has received from the watcher are the
\* first events the log service returned, in that order, and the output
\* holds exactly those events, each once and in that order; so it does when
\* Run has returned.
C3_LogsPrintedInOrder ==
    /\ Len(handed) <= emitted
    /\ handed = [i \in 1..Len(handed) |-> i]
    /\ printed = handed

C3_Witness ==
    /\ ReturnedBuild
    /\ handed = <<1, 2>>
    /\ printed = <<1, 2>>

\* C4: no build-service or log-service call is issued once Run has returned.
C4_NoCallAfterDone == lateCalls = 0

\* C5 (as stated): the select loop never takes the log case when the
\* completion case is ready too.
C5_CompletionFirst == got.kind = "event" => "build" \notin got.ready

\* C5 (amended): when a completed build and a log event are both pending,
\* the select takes either case.  If it takes the log case, the event is
\* printed, Run stays in its loop and the build stays pending for a later
\* select; once Run has taken the completion case, nothing more is printed.
C5_EitherCaseCompletionFinal ==
    [][ /\ (Selecting /\ Ready = {"log", "build"} /\ printed' # printed) =>
              /\ oPc' = "Streaming"
              /\ pPc' = "sendBuild"
              /\ printed' = Append(printed, Head(wBatch))
        /\ oPc \in {"Completing", "Done"} => printed' = printed ]_vars

\* both cases were ready and the select took the log case: the event is
\* printed and the build is still pending
C5_Witness ==
    /\ oPc = "Streaming"
    /\ got.kind = "event"
    /\ got.ready = {"log", "build"}
    /\ pPc = "sendBuild"
    /\ printed = <<1>>

NoBuildsFound == Err("No builds found")

\* C6 (as stated): after a fetch of waitForLogs returned no build, Run has
\* returned the lookup error and neither task was started; after a fetch of
\* waitForBuildComplete returned no build, the poller sends no build and Run,
\* when it returns, returns the lookup error.
C6_ZeroRecordsReported ==
    /\ "resolver-zero" \in seen =>
          /\ oPc = "Done"
          /\ result = NoBuildsFound
          /\ pPc = "idle" /\ wPc = "idle"
    /\ "poller-zero" \in seen =>
          /\ pMsg = NoBuildsFound
          /\ oPc = "Done" => result = NoBuildsFound

\* C6 (amended): as stated, except that Run returns the watcher's fatal
\* error instead of the poller's lookup error when that is the error it
\* received; in either case it returns an error, never an outcome of the
\* status table, and the poller sends no build.
C6_ZeroRecordsNoMapping ==
    /\ "resolver-zero" \in seen =>
          /\ oPc = "Done"
          /\ result = NoBuildsFound
          /\ pPc = "idle" /\ wPc = "idle"
    /\ "poller-zero" \in seen =>
          /\ pMsg = NoBuildsFound
          /\ pPc \in {"sendErr", "exited"}
          /\ oPc # "Completing"
          /\ oPc = "Done" =>
                /\ got.kind = "error"
                /\ result.kind = "error"
                /\ \/ got.from = "poller" /\ result = NoBuildsFound
                   \/ got.from = "watcher" /\ result = wMsg

C6_Witness ==
    /\ "poller-zero" \in seen
    /\ oPc = "Done"
    /\ got.kind = "error" /\ got.from = "poller"
    /\ result = NoBuildsFound

\* the fatal errors the tasks returned while Run was in its select loop
TaskErrors ==
    (IF "watcher-fatal" \in seen THEN {wMsg} ELSE {})
    \cup (IF "poller-fatal" \in seen THEN {pMsg} ELSE {})

\* C7 (as stated): when a task has returned a fatal error while Run was in
\* its select loop, the value Run returns is such an error, unchanged: not
\* success, and not an outcome of the status table.
C7_TaskErrorReturned ==
    (oPc = "Done" /\ TaskErrors # {}) => result \in TaskErrors

\* C7 (amended): every error the select loop receives from a task cancels
\* the scope at once and is the value Run returns, unchanged, with no status
\* mapping; Run never returns success after it has received one.  (An error
\* whose send is still pending when the loop takes the completion case or
\* the other task's error is never received.)
C7_ReceivedErrorReturned ==
    got.kind = "error" =>
        /\ oPc = "Done"
        /\ ctx = "cancelled"
        /\ got.err = (IF got.from = "watcher" THEN wMsg ELSE pMsg)
        /\ result = got.err
        /\ result.kind = "error"

C7_Witness ==
    /\ got.kind = "error"
    /\ got.from = "watcher"
    /\ result = Err("LogError")
    /\ pPc = "select"
    /\ ctx = "cancelled"

(***************************************************************************)
(* Properties of the environment overrides (SpecEnv)                       *)
(***************************************************************************)
\* the entries the user gave: the lines of the env file, then the env flags
UserInput == envFile \o envFlags

Malformed(e) == \A i \in 1..Len(e) : e[i] # "="

\* text before and after the first "=" of a well-formed entry
NameOf(e) ==
    LET i == CHOOSE k \in 1..Len(e) :
                 e[k] = "=" /\ \A j \in 1..(k - 1) : e[j] # "="
    IN  SubSeq(e, 1, i - 1)

ValueOf(e) == SubSeq(e, Len(NameOf(e)) + 2, Len(e))

\* C8: when the user input holds an entry without "=", no build is started.
C8_MalformedRejected ==
    (\E i \in 1..Len(UserInput) : Malformed(UserInput[i])) => startCalls = 0

\* C9: when the user input is one entry with an unquoted value (no double
\* quote in it), the command does not reject it, and the request it sends
\* carries exactly one override: the text before the first "=" as name and
\* all the text after it as value.
C9_SplitAtFirstEquals ==
    \A e \in EnvEntries :
        (UserInput = <<e>> /\ ~Malformed(e)
           /\ \A i \in 1..Len(e) : e[i] # "\"") =>
            /\ mPc # "exited"
            /\ startCalls > 0 =>
                  request = <<[Name |-> NameOf(e), Value |-> ValueOf(e)]>>

\* the value the command reads from a well-formed entry it accepts
ParsedValueOf(e) ==
    IF command = "env" THEN ValueOf(e)
    ELSE JSONUnmarshalString(ValueOf(e)).val

\* C10: the overrides of the request sent have pairwise different names,
\* and each name the user gave carries the value of its last occurrence.
C10_UniqueNames ==
    startCalls > 0 =>
        /\ \A i, j \in 1..Len(request) :
              request[i].Name = request[j].Name => i = j
        /\ \A k \in 1..Len(UserInput) :
              (/\ ~Malformed(UserInput[k])
               /\ \A m \in (k + 1)..Len(UserInput) :
                     Malformed(UserInput[m])
                     \/ NameOf(UserInput[m]) # NameOf(UserInput[k])) =>
                  \E i \in 1..Len(request) :
                      /\ request[i].Name = NameOf(UserInput[k])
                      /\ request[i].Value = ParsedValueOf(UserInput[k])

\* C11: when the user input holds an entry without "=", whether a line of
\* the env file or a value of the env flag, no build is started and the
\* process, once it has exited, has exited with code 2.
C11_ParseErrorExits2 ==
    (\E i \in 1..Len(UserInput) : Malformed(UserInput[i])) =>
        /\ startCalls = 0
        /\ mPc = "exited" => exitCode = 2

(***************************************************************************)
(* Properties of the order of Run (Spec)                                   *)
(***************************************************************************)
SubmissionError == Err("SubmissionError")

\* StartBuild has returned an error: Run has gone past it without a scope
SubmissionFailed == oPc \notin {"idle", "Starting"} /\ ctx = "none"

\* C12: StartBuild is called once, never again: Run has called it exactly
\* once as soon as it is past its first step.  When it fails, Run has
\* returned the submission error, no job record was fetched and neither
\* task was started.
C12_SubmitOnceNoRetry ==
    /\ startCalls <= 1
    /\ oPc \notin {"idle", "Starting"} => startCalls = 1
    /\ SubmissionFailed =>
          /\ oPc = "Done"
          /\ result = SubmissionError
          /\ rFetches = 0 /\ pFetches = 0 /\ wFetches = 0
          /\ pPc = "idle" /\ wPc = "idle"
    /\ result = SubmissionError => SubmissionFailed

C12_Witness ==
    /\ SubmissionFailed
    /\ oPc = "Done"
    /\ startCalls = 1
    /\ mPc = "exited"
    /\ exitCode = 1

(***************************************************************************)
(* Properties of the tasks after cancellation (Spec)                       *)
(***************************************************************************)
\* a step of the goroutine of waitForBuildComplete: a step of its own, or
\* the receive in Run that completes the send it is blocked in
PollerStep ==
    \/ PollerTimer
    \/ PollerCtxDone
    \/ PollerFetch
    \/ OrchRecvErrFrom("poller")
    \/ OrchRecvComplete

\* the same for the goroutine of lw.Watch
WatcherStep ==
    \/ WatcherCtxDone
    \/ WatcherPoll
    \/ OrchRecvLog
    \/ OrchRecvErrFrom("watcher")

Ended(pc) == pc \in {"idle", "exited"}

\* C13: while the process runs with the scope cancelled, each task has
\* ended or can take a step: none is blocked in a send that Run will never
\* receive (Run does not come back to its select once it has cancelled).
C13_NoTaskBlockedForever ==
    (ctx = "cancelled" /\ mPc = "run") =>
        /\ Ended(pPc) \/ ENABLED PollerStep
        /\ Ended(wPc) \/ ENABLED WatcherStep

\* the order of the positions of Run
Rank(pc) ==
    CASE pc = "idle" -> 0
      [] pc = "Starting" -> 1
      [] pc = "WaitingForSink" -> 2
      [] pc = "Streaming" -> 3
      [] pc = "Completing" -> 4
      [] OTHER -> 5

\* C14: Run only moves forward through Starting, WaitingForSink, Streaming,
\* Completing, Done.  Job records are fetched only after StartBuild
\* succeeded, the tasks are started only after waitForLogs returned a
\* location, and when waitForLogs fails Run returns its error at once
\* (from WaitingForSink to Done) and the tasks are never started.
C14_ForwardOnly ==
    /\ [](/\ rFetches > 0 => (ctx # "none" /\ result # SubmissionError)
          /\ (pPc # "idle" \/ wPc # "idle") =>
                (logs # None /\ Rank(oPc) >= 3 /\ rFetches > 0)
          /\ oPc \in {"Streaming", "Completing"} => logs # None
          /\ (oPc = "Done" /\ logs = None) => (pPc = "idle" /\ wPc = "idle"))
    /\ [][ /\ Rank(oPc') >= Rank(oPc)
           /\ (oPc = "WaitingForSink" /\ logs = None /\ oPc' # oPc) =>
                 /\ oPc' = "Done"
                 /\ result'.kind = "error"
                 /\ result' \in {Err("BuildSvcError"), NoBuildsFound}
                 /\ pPc' = "idle" /\ wPc' = "idle" ]_vars

\* waitForLogs failed with a service error: Run is done, no task was started
C14_Witness ==
    /\ oPc = "Done"
    /\ logs = None
    /\ rFetches = 2
    /\ result = Err("BuildSvcError")
    /\ pPc = "idle" /\ wPc = "idle"

(***************************************************************************)
(* The Poller's messages                                                   *)
(***************************************************************************)

PollerMessage == pMsg # None

ContextDone == Err("Context done")

\* C16: Run never returns the "Context done" error that waitForLogs,
\* waitForBuildComplete or the Watcher produce on a cancelled ctx, nor does
\* its select ever receive one; and when Run returns on a build whose status
\* is SUCCEEDED it returns nil, also while a task holds a "Context done"
\* error it produced on the cancel of that very case.
C16_CancellationNotReported ==
    /\ result # ContextDone
    /\ got.kind = "error" => got.err # ContextDone
    /\ (ReturnedBuild /\ got.BuildStatus = "SUCCEEDED") => result = Nil
    /\ (mPc = "exited" /\ ReturnedBuild /\ got.BuildStatus = "SUCCEEDED") =>
          exitCode = 0

\* the build succeeded and Run returned nil while the Watcher, having seen
\* the cancelled ctx, is left sending its "Context done" error
C16_Witness ==
    /\ ReturnedBuild
    /\ got.BuildStatus = "SUCCEEDED"
    /\ result = Nil
    /\ wPc = "sendErr"
    /\ wMsg = ContextDone
    /\ mPc = "exited"

(***************************************************************************)
(* The log location waitForLogs returns                                    *)
(***************************************************************************)

\* C17: a log location returned by waitForLogs has both its GroupName and
\* its StreamName, so that Run, building the logWatcher, never dereferences
\* an absent one.
C17_SinkLocationComplete ==
    /\ logs # None => logs.full
    /\ result.kind # "panic"

(***************************************************************************)
(* The scope of Run                                                        *)
(***************************************************************************)

ScopeCreated == ctx # "none"

\* C18: when Run has returned and had created its ctx, the ctx is
\* cancelled, whichever way Run returned: on an error of waitForLogs, on an
\* error received from a task, on a build of any status (and on a panic);
\* and the ctx, once cancelled, stays cancelled.
C18_ScopeCancelledOnReturn ==
    /\ [](/\ (oPc = "Done" /\ ScopeCreated) => ctx = "cancelled"
          /\ oPc = "Completing" => ctx = "cancelled"
          /\ (mPc = "exited" /\ ScopeCreated) => ctx = "cancelled")
    /\ [][ctx = "cancelled" => ctx' = "cancelled"]_vars

\* Run returned the error of waitForLogs: only the deferred call cancels
C18_Witness ==
    /\ oPc = "Done"
    /\ ScopeCreated
    /\ ctx = "cancelled"
    /\ result = NoBuildsFound
    /\ logs = None
    /\ mPc = "exited"

(***************************************************************************)
(* Termination of Run                                                      *)
(***************************************************************************)

Returned == oPc = "Done" /\ result.kind # "panic"

\* C19: when every service call succeeds, the build comes to show its Logs
\* and to be complete, and the log events are finitely many, Run eventually
\* returns.
C19_RunEventuallyReturns == <>Returned

\* Leaving aside the build whose Logs lacks a name, on which Run panics, Run
\* eventually returns on the build the Poller sends: the select never stays
\* with the Watcher in its send on logEvents and the Poller in its send on
\* buildComplete.
RunReturnsOrPanics ==
    /\ <>(oPc = "Done")
    /\ [](logs # None /\ logs.full => <>ReturnedBuild)
    /\ []((oPc = "Streaming" /\ wPc = "sendEvent" /\ pPc = "sendBuild") =>
            (ENABLED OrchRecvLog /\ ENABLED OrchRecvComplete))

====
